---- MODULE Spec2Model ----
(***************************************************************************)
(* GpuSkulpt (src/js/skulptgpu.js): the render-to-texture feedback         *)
(* pipeline of a GPU height-field sculpting tool.  Two float render        *)
(* targets are ping-ponged by update(); a third one holds the composite    *)
(* of the base height texture and the accumulated sculpt texture, and is   *)
(* what the display mesh samples.                                          *)
(*                                                                         *)
(* Units.  The code works on floats; the model keeps every quantity as an  *)
(* integer multiple of a fixed unit:                                       *)
(*   heights and amounts   in units of 1/HeightScale  (0.05 = 510 units,   *)
(*                         b/255 = 40*b units, 0.5 = 5100 units)           *)
(*   UV coordinates        in units of 1/size         (0.5 = halfSize)     *)
(*   the brush radius      in units of 1/RadiusScale                       *)
(* Float32 rounding of stored values is not modelled.                      *)
(***************************************************************************)
EXTENDS Integers, Sequences, FiniteSets, TLC

(***************************************************************************)
(* Bounds of the model.                                                    *)
(***************************************************************************)
MaxCalls == 4            \* calls of the public operations in one run

(***************************************************************************)
(* Constructor options (lines 13-30) and constants of the source.          *)
(***************************************************************************)
size == 4                \* options.size
res == 2                 \* options.res
halfSize == size \div 2  \* this.size / 2.0
ADD == 1
REMOVE == 2

HeightScale == 255 * 2 * 20
RadiusScale == 800 * size
MinStart == 99999 * HeightScale      \* var min = 99999

\* Texture handles.  null is the unbound uniform value, imageDataTexture the
\* THREE.DataTexture of the constructor; render targets are numbered from
\* FirstTarget in allocation order.
null == 0
imageDataTexture == 1
FirstTarget == imageDataTexture + 1
RenderTargets == FirstTarget .. (FirstTarget + 3 * (MaxCalls + 1) - 1)

Texels == 0 .. (res * res - 1)
DataIndex == 1 .. (4 * res * res)    \* Float32Array(4 * res * res), 1-based
ZeroTexture == [t \in Texels |-> 0]

Min2(a, b) == IF a < b THEN a ELSE b
Abs(a) == IF a < 0 THEN 0 - a ELSE a

(***************************************************************************)
(* Inputs the operations are called with.                                  *)
(***************************************************************************)
SculptTypes == {ADD, REMOVE}
Positions == {[x |-> 0 - 1, z |-> 0 - 1], [x |-> 1, z |-> 1]}
BrushSizes == {2}                    \* setBrushSize(size), world units
BrushAmounts == {510, 1020}          \* setBrushAmount(0.05), (0.1)
LoadAmounts == {1, 2}                \* loadFromImageData(_, amount, _)
Greys == {<<0, 64, 128, 255>>, <<200, 100, 100, 50>>}
\* an RGBA byte buffer of res*res pixels: grey g[p] in r, g, b and alpha 255
ImageOf(g) == [i \in DataIndex |->
                 IF i % 4 = 0 THEN 255 ELSE g[((i - 1) \div 4) + 1]]
ImageSamples == {ImageOf(g) : g \in Greys}
\* texel values a draw with a feedback loop may leave behind besides the
\* old and the intended content
UndefinedTexels == {ZeroTexture, [t \in Texels |-> HeightScale]}

VARIABLES
    rttRenderTarget1,     \* this.rttRenderTarget1 (handle)
    rttRenderTarget2,     \* this.rttRenderTarget2 (handle)
    rttCombinedLayer,     \* this.rttCombinedLayer (handle)
    rttQuadMeshMaterial,  \* this.rttQuadMesh.material
    isSculpting,          \* this.isSculpting
    sculptUvPos,          \* this.sculptUvPos
    imageProcessedData,   \* this.imageProcessedData
    imageDataTextureData, \* this.imageDataTexture.image.data (<<>> = null)
    uBaseTexture,         \* skulptMaterial.uniforms.*
    uSculptTexture1,
    uIsSculpting,
    uSculptType,
    uSculptPos,
    uSculptAmount,
    uSculptRadius,
    uTexture1,            \* combineTexturesMaterial.uniforms.*
    uTexture2,
    uTexture,             \* mesh.material.uniforms.uTexture
    textures,             \* content (r channel per texel) of each render target
    allocated,            \* number of render targets created so far
    drawCalls,            \* the renderer.render calls of the latest update()
    sculptCalls,          \* sculpt() calls since the latest update()
    appliedCalls,         \* sculpt() calls that preceded the latest update()
    history,              \* names of the public operations called so far
    loadArgs,             \* arguments of the latest loadFromImageData() call
    options,              \* the constructor's options and the GL capabilities
    thrown,               \* message of the Error the constructor threw, or ""
    meshMaterial          \* options.mesh.material

gpuVars == <<rttRenderTarget1, rttRenderTarget2, rttCombinedLayer,
             rttQuadMeshMaterial, textures, allocated, drawCalls>>
brushVars == <<isSculpting, sculptUvPos, uIsSculpting, uSculptType,
               uSculptPos, uSculptAmount, uSculptRadius>>
baseVars == <<imageProcessedData, imageDataTextureData, uBaseTexture, uTexture1,
              loadArgs>>
bindVars == <<uSculptTexture1, uTexture2, uTexture>>
histVars == <<sculptCalls, appliedCalls, history>>

calls == Len(history)
updates == Cardinality({i \in DOMAIN history : history[i] = "update"})
lastOp == IF history = <<>> THEN "new" ELSE history[Len(history)]
ctorVars == <<options, thrown, meshMaterial>>
vars == <<gpuVars, brushVars, baseVars, bindVars, histVars, ctorVars>>

(***************************************************************************)
(* What a shader reads through a sampler bound to handle tex: an unbound   *)
(* sampler reads 0, the data texture reads the r channel of its buffer.    *)
(***************************************************************************)
texture(tex, texs, data) ==
    IF tex = null THEN ZeroTexture
    ELSE IF tex = imageDataTexture THEN [t \in Texels |-> data[4 * t + 1]]
    ELSE texs[tex]

\* the texel a UV position (units of 1/size) falls into
texelAt(uv) ==
    LET col == Min2(res - 1, (uv.x * res) \div size)
        row == Min2(res - 1, (uv.y * res) \div size)
    IN row * res + col

\* /glsl/skulpt.frag: previous accumulation plus the brush op, if any
skulptFrag(prev, sculpting, type, uv, amount) ==
    [t \in Texels |->
        prev[t] + (IF sculpting /\ t = texelAt(uv)
                   THEN (IF type = ADD THEN amount
                         ELSE IF type = REMOVE THEN 0 - amount ELSE 0)
                   ELSE 0)]

\* /glsl/combineTextures.frag: the sum of the two layers
combineTexturesFrag(t1, t2) == [t \in Texels |-> t1[t] + t2[t]]

\* renderer.render(scene, camera, target): the content target may hold after
\* a draw that samples `sources`.  Sampling the texture being rendered to is
\* a feedback loop: the draw may be rejected, act as intended, or leave
\* undefined values.
renderOutcomes(sources, target, current, intended) ==
    IF target \in sources
    THEN {current, intended} \cup UndefinedTexels
    ELSE {intended}

(***************************************************************************)
(* The constructor, lines 11-65.  An option is either given or undefined;  *)
(* floatLinear says whether getExtension('OES_texture_float_linear')       *)
(* returns an object, vertexTextures is MAX_VERTEX_TEXTURE_IMAGE_UNITS.    *)
(***************************************************************************)
Options == [mesh : BOOLEAN, renderer : BOOLEAN, size : BOOLEAN, res : BOOLEAN,
            floatLinear : BOOLEAN, vertexTextures : {0, 4}]

\* lines 13-28: the Error thrown for the first option that is undefined
optionsError(o) ==
    IF ~o.mesh THEN "mesh not specified"
    ELSE IF ~o.renderer THEN "renderer not specified"
    ELSE IF ~o.size THEN "size not specified"
    ELSE IF ~o.res THEN "res not specified"
    ELSE ""

\* __checkExtensions, lines 57-65
checkExtensionsFloatOnly(o) ==
    IF ~o.floatLinear THEN "Extension not available: OES_texture_float_linear"
    ELSE ""

checkExtensions(o) ==
    IF ~o.floatLinear THEN "Extension not available: OES_texture_float_linear"
    ELSE IF o.vertexTextures = 0
         THEN "Vertex textures not supported on your graphics card"
    ELSE ""

\* the fields that lines 32-47 and __setupShaders give their first values;
\* before that they are not defined and nothing reads them
newFields ==
    /\ textures = [h \in RenderTargets |-> ZeroTexture]
    /\ isSculpting = FALSE
    /\ sculptUvPos = [x |-> 0, y |-> 0]
    /\ imageProcessedData = [i \in DataIndex |-> 0]
    /\ imageDataTextureData = <<>>
    /\ uBaseTexture = null
    /\ uSculptTexture1 = null
    /\ uIsSculpting = FALSE
    /\ uSculptType = 0
    /\ uSculptPos = [x |-> halfSize, y |-> halfSize]
    /\ uSculptAmount = HeightScale \div 20      \* 0.05
    /\ uSculptRadius = (RadiusScale \div 400) * size   \* 0.0025 * this.size
    /\ uTexture1 = null
    /\ uTexture2 = null
    /\ uTexture = null
    /\ drawCalls = <<>>
    /\ sculptCalls = <<>>
    /\ appliedCalls = <<>>
    /\ history = <<>>
    /\ loadArgs = [data |-> [i \in DataIndex |-> 0], amount |-> 0,
                   midGreyIsLowest |-> FALSE]

\* before new GpuSkulpt(options): no render target exists and the mesh has
\* the material it was made with
NotConstructed ==
    /\ options \in Options
    /\ thrown = ""
    /\ meshMaterial = "original"
    /\ rttRenderTarget1 = null
    /\ rttRenderTarget2 = null
    /\ rttCombinedLayer = null
    /\ allocated = 0
    /\ rttQuadMeshMaterial = "undefined"
    /\ newFields

\* new GpuSkulpt(options): the option checks, then init(): __checkExtensions,
\* __setupShaders, __setupRttScene (three render targets), __setupVtf (the
\* mesh's material is replaced)
GpuSkulpt ==
    /\ thrown = ""
    /\ meshMaterial = "original"
    /\ LET e1 == optionsError(options)
           e2 == checkExtensions(options)
       IN IF e1 # "" \/ e2 # ""
          THEN /\ thrown' = (IF e1 # "" THEN e1 ELSE e2)
               /\ UNCHANGED <<gpuVars, meshMaterial>>
          ELSE /\ rttRenderTarget1' = FirstTarget
               /\ rttRenderTarget2' = FirstTarget + 1
               /\ rttCombinedLayer' = FirstTarget + 2
               /\ allocated' = 3
               /\ rttQuadMeshMaterial' = "skulptMaterial"
               /\ meshMaterial' = "ShaderMaterial"
               /\ UNCHANGED <<textures, drawCalls, thrown>>
    /\ UNCHANGED <<options, brushVars, baseVars, bindVars, histVars>>

ConstructSpec == NotConstructed /\ [][GpuSkulpt]_vars

\* the state after new GpuSkulpt(options) has returned
Init ==
    /\ options = [mesh |-> TRUE, renderer |-> TRUE, size |-> TRUE, res |-> TRUE,
                  floatLinear |-> TRUE, vertexTextures |-> 4]
    /\ thrown = ""
    /\ meshMaterial = "ShaderMaterial"
    /\ rttRenderTarget1 = FirstTarget
    /\ rttRenderTarget2 = FirstTarget + 1
    /\ rttCombinedLayer = FirstTarget + 2
    /\ allocated = 3
    /\ rttQuadMeshMaterial = "skulptMaterial"
    /\ newFields


(***************************************************************************)
(* sculpt(type, position, amount), lines 210-215.  The amount argument is  *)
(* not read by the code.                                                   *)
(***************************************************************************)
uvOf(position) == [x |-> position.x + halfSize, y |-> position.z + halfSize]

sculptKeepFirst(type, position, amount) ==
    /\ calls < MaxCalls
    /\ history' = Append(history, "sculpt")
    /\ uSculptType' = (IF isSculpting THEN uSculptType ELSE type)
    /\ isSculpting' = TRUE
    /\ sculptUvPos' = (IF isSculpting THEN sculptUvPos ELSE uvOf(position))
    /\ sculptCalls' = Append(sculptCalls,
                        [type |-> type, position |-> position, amount |-> amount])
    /\ UNCHANGED ctorVars
    /\ UNCHANGED <<gpuVars, baseVars, bindVars, appliedCalls,
                   uIsSculpting, uSculptPos, uSculptAmount, uSculptRadius>>

sculptSetsAmount(type, position, amount) ==
    /\ calls < MaxCalls
    /\ history' = Append(history, "sculpt")
    /\ uSculptType' = type
    /\ isSculpting' = TRUE
    /\ sculptUvPos' = uvOf(position)
    /\ uSculptAmount' = amount
    /\ sculptCalls' = Append(sculptCalls,
                        [type |-> type, position |-> position, amount |-> amount])
    /\ UNCHANGED ctorVars
    /\ UNCHANGED <<gpuVars, baseVars, bindVars, appliedCalls,
                   uIsSculpting, uSculptPos, uSculptRadius>>

sculpt(type, position, amount) ==
    /\ calls < MaxCalls
    /\ history' = Append(history, "sculpt")
    /\ uSculptType' = type
    /\ isSculpting' = TRUE
    /\ sculptUvPos' = uvOf(position)
    /\ sculptCalls' = Append(sculptCalls,
                        [type |-> type, position |-> position, amount |-> amount])
    /\ UNCHANGED ctorVars
    /\ UNCHANGED <<gpuVars, baseVars, bindVars, appliedCalls,
                   uIsSculpting, uSculptPos, uSculptAmount, uSculptRadius>>

(***************************************************************************)
(* swapRenderTargets(), lines 166-171: the values of rttRenderTarget1,     *)
(* rttRenderTarget2 and uSculptTexture1 after the swap.                    *)
(***************************************************************************)
swapBindsWriteTarget(rt1, rt2) ==
    [rttRenderTarget1 |-> rt2, rttRenderTarget2 |-> rt1, uSculptTexture1 |-> rt2]

swapKeepsTargets(rt1, rt2) ==
    [rttRenderTarget1 |-> rt1, rttRenderTarget2 |-> rt2, uSculptTexture1 |-> rt2]

swapForgetsBinding(rt1, rt2) ==
    [rttRenderTarget1 |-> rt2, rttRenderTarget2 |-> rt1,
     uSculptTexture1 |-> uSculptTexture1]

swapRenderTargets(rt1, rt2) ==
    [rttRenderTarget1 |-> rt2, rttRenderTarget2 |-> rt1, uSculptTexture1 |-> rt1]

(***************************************************************************)
(* update(), lines 152-154: the pending flag and position are copied into  *)
(* the sculpt material's uniforms and the flag is cleared.                 *)
(***************************************************************************)
sculptUniformsKeepFlag(pending, uv) ==
    [uIsSculpting |-> pending, uSculptPos |-> uv, isSculpting |-> pending]

sculptUniforms(pending, uv) ==
    [uIsSculpting |-> pending, uSculptPos |-> uv, isSculpting |-> FALSE]

(***************************************************************************)
(* update(), lines 148-165.                                                *)
(***************************************************************************)
update ==
    /\ calls < MaxCalls
    /\ history' = Append(history, "update")
    /\ LET u == sculptUniforms(isSculpting, sculptUvPos)
           target == rttRenderTarget1
           sculptDraw == [pass |-> "SculptPass", target |-> target,
                          uBaseTexture |-> uBaseTexture,
                          uSculptTexture1 |-> uSculptTexture1,
                          uIsSculpting |-> u.uIsSculpting,
                          uSculptType |-> uSculptType,
                          uSculptPos |-> u.uSculptPos,
                          uSculptAmount |-> uSculptAmount,
                          uSculptRadius |-> uSculptRadius]
           sculpted == skulptFrag(
                          texture(uSculptTexture1, textures, imageProcessedData),
                          u.uIsSculpting, uSculptType, u.uSculptPos, uSculptAmount)
           sw == swapRenderTargets(rttRenderTarget1, rttRenderTarget2)
           combineDraw == [pass |-> "CompositePass", target |-> rttCombinedLayer,
                           uTexture1 |-> uTexture1,
                           uTexture2 |-> sw.rttRenderTarget1]
       IN \E out1 \in renderOutcomes({uBaseTexture, uSculptTexture1}, target,
                                     textures[target], sculpted) :
            LET texs1 == [textures EXCEPT ![target] = out1]
                combined == combineTexturesFrag(
                               texture(uTexture1, texs1, imageProcessedData),
                               texture(sw.rttRenderTarget1, texs1, imageProcessedData))
            IN \E out2 \in renderOutcomes({uTexture1, sw.rttRenderTarget1},
                                          rttCombinedLayer,
                                          texs1[rttCombinedLayer], combined) :
                 /\ textures' = [texs1 EXCEPT ![rttCombinedLayer] = out2]
                 /\ uIsSculpting' = u.uIsSculpting
                 /\ uSculptPos' = u.uSculptPos
                 /\ isSculpting' = u.isSculpting
                 /\ rttRenderTarget1' = sw.rttRenderTarget1
                 /\ rttRenderTarget2' = sw.rttRenderTarget2
                 /\ uSculptTexture1' = sw.uSculptTexture1
                 /\ rttQuadMeshMaterial' = "combineTexturesMaterial"
                 /\ uTexture2' = sw.rttRenderTarget1
                 /\ uTexture' = rttCombinedLayer
                 /\ drawCalls' = <<sculptDraw, combineDraw>>
    /\ appliedCalls' = sculptCalls
    /\ sculptCalls' = <<>>
    /\ UNCHANGED ctorVars
    /\ UNCHANGED <<rttCombinedLayer, allocated, baseVars,
                   sculptUvPos, uSculptType, uSculptAmount, uSculptRadius>>

(***************************************************************************)
(* setBrushSize(size), lines 172-174, and setBrushAmount(amount), 175-177. *)
(***************************************************************************)
setBrushSize(brushSize) ==
    /\ calls < MaxCalls
    /\ history' = Append(history, "setBrushSize")
    /\ uSculptRadius' = (RadiusScale \div (size * 2)) * brushSize   \* size / (this.size * 2.0)
    /\ UNCHANGED ctorVars
    /\ UNCHANGED <<gpuVars, baseVars, bindVars, sculptCalls, appliedCalls, isSculpting,
                   sculptUvPos, uIsSculpting, uSculptType, uSculptPos,
                   uSculptAmount>>

setBrushAmountSetsRadius(amount) ==
    /\ calls < MaxCalls
    /\ history' = Append(history, "setBrushAmount")
    /\ uSculptAmount' = amount
    /\ uSculptRadius' = amount
    /\ UNCHANGED ctorVars
    /\ UNCHANGED <<gpuVars, baseVars, bindVars, sculptCalls, appliedCalls, isSculpting,
                   sculptUvPos, uIsSculpting, uSculptType, uSculptPos>>

setBrushAmount(amount) ==
    /\ calls < MaxCalls
    /\ history' = Append(history, "setBrushAmount")
    /\ uSculptAmount' = amount
    /\ UNCHANGED ctorVars
    /\ UNCHANGED <<gpuVars, baseVars, bindVars, sculptCalls, appliedCalls, isSculpting,
                   sculptUvPos, uIsSculpting, uSculptType, uSculptPos,
                   uSculptRadius>>

(***************************************************************************)
(* loadFromImageData(data, amount, midGreyIsLowest), lines 178-209.        *)
(***************************************************************************)
\* normalizedHeight * amount of one sample, lines 185-190
scaledHeight(b, amount, midGreyIsLowest) ==
    IF midGreyIsLowest
    THEN Abs((HeightScale \div 255) * b - HeightScale \div 2) * amount
    ELSE ((HeightScale \div 255) * b) * amount

\* the value of min after the first loop has visited indices 1..n
RECURSIVE minUpTo(_, _)
minUpTo(f, n) ==
    IF n = 0 THEN MinStart
    ELSE LET m == minUpTo(f, n - 1) IN IF f[n] < m THEN f[n] ELSE m

processImageDataNoShift(data, amount, midGreyIsLowest) ==
    [i \in DataIndex |-> scaledHeight(data[i], amount, midGreyIsLowest)]

processImageData(data, amount, midGreyIsLowest) ==
    LET scaled == [i \in DataIndex |-> scaledHeight(data[i], amount, midGreyIsLowest)]
        min == minUpTo(scaled, 4 * res * res)
    IN [i \in DataIndex |-> scaled[i] - min]

loadFromImageData(data, amount, midGreyIsLowest) ==
    /\ calls < MaxCalls
    /\ history' = Append(history, "loadFromImageData")
    /\ imageProcessedData' = processImageData(data, amount, midGreyIsLowest)
    /\ imageDataTextureData' = imageProcessedData'
    /\ uBaseTexture' = imageDataTexture
    /\ uTexture1' = imageDataTexture
    /\ loadArgs' = [data |-> data, amount |-> amount,
                    midGreyIsLowest |-> midGreyIsLowest]
    /\ UNCHANGED ctorVars
    /\ UNCHANGED <<gpuVars, brushVars, bindVars, sculptCalls, appliedCalls>>

(***************************************************************************)
(* clear(), lines 216-227: three new render targets; the sculpt pass input *)
(* and the mesh's height texture are bound to the new rttRenderTarget1.    *)
(***************************************************************************)
clearReusesTargets ==
    /\ calls < MaxCalls
    /\ history' = Append(history, "clear")
    /\ uSculptTexture1' = rttRenderTarget1
    /\ uTexture' = rttRenderTarget1
    /\ UNCHANGED ctorVars
    /\ UNCHANGED <<gpuVars, brushVars, baseVars, uTexture2,
                   sculptCalls, appliedCalls>>

clearDropsPending ==
    /\ calls < MaxCalls
    /\ history' = Append(history, "clear")
    /\ rttRenderTarget1' = FirstTarget + allocated
    /\ rttRenderTarget2' = FirstTarget + allocated + 1
    /\ rttCombinedLayer' = FirstTarget + allocated + 2
    /\ allocated' = allocated + 3
    /\ textures' = [h \in RenderTargets |->
                      IF h >= FirstTarget + allocated THEN ZeroTexture
                      ELSE textures[h]]
    /\ uSculptTexture1' = rttRenderTarget1'
    /\ uTexture' = rttRenderTarget1'
    /\ isSculpting' = FALSE
    /\ UNCHANGED ctorVars
    /\ UNCHANGED <<rttQuadMeshMaterial, drawCalls, baseVars, uTexture2,
                   sculptUvPos, uIsSculpting, uSculptType, uSculptPos,
                   uSculptAmount, uSculptRadius,
                   sculptCalls, appliedCalls>>

clearSharesCombined ==
    /\ calls < MaxCalls
    /\ history' = Append(history, "clear")
    /\ rttRenderTarget1' = FirstTarget + allocated
    /\ rttRenderTarget2' = FirstTarget + allocated + 1
    /\ rttCombinedLayer' = rttRenderTarget1'
    /\ allocated' = allocated + 3
    /\ textures' = [h \in RenderTargets |->
                      IF h >= FirstTarget + allocated THEN ZeroTexture
                      ELSE textures[h]]
    /\ uSculptTexture1' = rttRenderTarget1'
    /\ uTexture' = rttRenderTarget1'
    /\ UNCHANGED ctorVars
    /\ UNCHANGED <<rttQuadMeshMaterial, drawCalls, brushVars, baseVars, uTexture2,
                   sculptCalls, appliedCalls>>

clear ==
    /\ calls < MaxCalls
    /\ history' = Append(history, "clear")
    /\ rttRenderTarget1' = FirstTarget + allocated
    /\ rttRenderTarget2' = FirstTarget + allocated + 1
    /\ rttCombinedLayer' = FirstTarget + allocated + 2
    /\ allocated' = allocated + 3
    /\ textures' = [h \in RenderTargets |->
                      IF h >= FirstTarget + allocated THEN ZeroTexture
                      ELSE textures[h]]
    /\ uSculptTexture1' = rttRenderTarget1'
    /\ uTexture' = rttRenderTarget1'
    /\ UNCHANGED ctorVars
    /\ UNCHANGED <<rttQuadMeshMaterial, drawCalls, brushVars, baseVars, uTexture2,
                   sculptCalls, appliedCalls>>

doSculpt == \E type \in SculptTypes, position \in Positions, amount \in BrushAmounts :
               sculpt(type, position, amount)
doSetBrushSize == \E brushSize \in BrushSizes : setBrushSize(brushSize)
doSetBrushAmount == \E amount \in BrushAmounts : setBrushAmount(amount)
doLoadFromImageData ==
    \E data \in ImageSamples, amount \in LoadAmounts, midGreyIsLowest \in BOOLEAN :
        loadFromImageData(data, amount, midGreyIsLowest)

Next ==
    \/ doSculpt
    \/ update
    \/ clear
    \/ doSetBrushSize
    \/ doSetBrushAmount
    \/ doLoadFromImageData

Spec == Init /\ [][Next]_vars


(***************************************************************************)
(* Repeated sculpt(ADD, p, a); update() pairs at one position p from the   *)
(* state after construction: the base texture and the brush are set up     *)
(* before the first pair, and a is the amount the brush is set to.         *)
(***************************************************************************)
accumSetup ==
    /\ updates = 0
    /\ sculptCalls = <<>>
    /\ (doSetBrushSize \/ doSetBrushAmount \/ doLoadFromImageData)

accumSculpt ==
    /\ ~isSculpting
    /\ \E position \in Positions :
         /\ updates = 0 \/ uvOf(position) = sculptUvPos
         /\ sculpt(ADD, position, uSculptAmount)

accumUpdate ==
    /\ isSculpting
    /\ update

AccumNext == accumSetup \/ accumSculpt \/ accumUpdate

AccumSpec == Init /\ [][AccumNext]_vars

(***************************************************************************)
(* loadFromImageData() on its own, called with buffers made of the pixels  *)
(* of Pixels and with small, negative and very large amounts.              *)
(***************************************************************************)
Pixels == {<<0, 0, 0, 255>>, <<255, 255, 255, 255>>, <<100, 150, 200, 50>>}
LoadBuffers ==
    {[i \in DataIndex |-> px[(i - 1) \div 4][((i - 1) % 4) + 1]] :
        px \in [Texels -> Pixels]}
AnyLoadAmounts == {1, 2, 0 - 1, 100000}

loadAnyImage ==
    \E data \in LoadBuffers, amount \in AnyLoadAmounts, midGreyIsLowest \in BOOLEAN :
        loadFromImageData(data, amount, midGreyIsLowest)

LoadSpec == Init /\ [][loadAnyImage]_vars

(***************************************************************************)
(* Properties.                                                             *)
(***************************************************************************)
UpdateStep == history' = Append(history, "update")
ClearStep == history' = Append(history, "clear")

\* the draw calls of the latest update()
sculptPass == drawCalls[1]
compositePass == drawCalls[2]

\* the heights the display mesh samples, and the base heights
meshHeights == texture(uTexture, textures, imageProcessedData)
baseHeights == texture(uTexture1, textures, imageProcessedData)

\* prev with one brush op of the given type applied at uv
oneOpOn(prev, type, uv, amount) ==
    [t \in Texels |->
        IF t = texelAt(uv)
        THEN (IF type = ADD THEN prev[t] + amount ELSE prev[t] - amount)
        ELSE prev[t]]

\* C1: in every SculptPass draw of update(), the texture bound as the
\* previous-accumulation input differs from the render target written.
C1_NoSelfFeedback ==
    drawCalls # <<>> => sculptPass.uSculptTexture1 # sculptPass.target

\* C2: after every update(), the CompositePass has sampled the texture that
\* this update()'s SculptPass wrote, and the combined layer holds the
\* composite of the base texture and that texture.
C2_CompositeOfOwnSculptPass ==
    [][UpdateStep =>
        /\ compositePass'.uTexture2 = sculptPass'.target
        /\ textures'[rttCombinedLayer'] =
              combineTexturesFrag(baseHeights', textures'[sculptPass'.target])
      ]_vars

\* C3: an update() called right after an update() has completed, with no
\* sculpt() or other call in between, leaves the heights the display mesh
\* samples unchanged.
C3_UpdateIdempotent ==
    [][(UpdateStep /\ lastOp = "update") =>
          meshHeights' = meshHeights]_vars

\* C4: an update() that follows one or more sculpt() calls runs its SculptPass
\* with the type and UV position of the last of them, writes the previous
\* accumulation with that single op applied, and leaves nothing pending; an
\* update() that follows no sculpt() call applies no op.
C4_LastWriteWins ==
    [][UpdateStep =>
        LET d == sculptPass'
        IN IF sculptCalls = <<>>
           THEN ~d.uIsSculpting
           ELSE LET last == sculptCalls[Len(sculptCalls)]
                    uv == [x |-> last.position.x + halfSize,
                           y |-> last.position.z + halfSize]
                IN /\ d.uIsSculpting
                   /\ d.uSculptType = last.type
                   /\ d.uSculptPos = uv
                   /\ ~isSculpting'
                   /\ d.uSculptTexture1 # d.target =>
                        textures'[d.target] =
                          oneOpOn(texture(d.uSculptTexture1, textures,
                                          imageProcessedData),
                                  last.type, uv, d.uSculptAmount)
      ]_vars

C4_Witness ==
    /\ lastOp = "update"
    /\ Len(appliedCalls) = 2
    /\ appliedCalls[1].type = ADD
    /\ appliedCalls[2].type = REMOVE
    /\ appliedCalls[1].position # appliedCalls[2].position
    /\ sculptPass.uIsSculpting
    /\ sculptPass.uSculptType = REMOVE
    /\ textures[sculptPass.target] =
          oneOpOn(ZeroTexture, REMOVE, uvOf(appliedCalls[2].position),
                  sculptPass.uSculptAmount)

\* C5 (under AccumSpec): after the N-th sculpt(ADD, p, a); update() pair the
\* height the display mesh samples at p is N*a above the base height at p.
C5_Accumulation ==
    (updates >= 1 /\ ~isSculpting) =>
        meshHeights[texelAt(sculptUvPos)] =
            baseHeights[texelAt(sculptUvPos)] + updates * uSculptAmount

\* C6: in the state left by an update(), the texture bound as the SculptPass
\* read source differs from the render target of the next SculptPass draw.
C6_SwapChainNonAliasing ==
    lastOp = "update" => uSculptTexture1 # rttRenderTarget1

C6_Witness ==
    /\ lastOp = "update"
    /\ updates >= 2
    /\ uSculptTexture1 = rttRenderTarget2
    /\ sculptPass.target = uSculptTexture1

\* C7: the mesh's height texture is unbound or the combined layer.
C7_MeshSamplesCombinedLayerOnly ==
    uTexture \in {null, rttCombinedLayer}

\* C8: after clear() both swap-chain textures and the accumulation the next
\* SculptPass reads are zero everywhere, and the base height data and its
\* bindings are as before.
C8_ClearZeroesAccumulation ==
    [][ClearStep =>
        /\ textures'[rttRenderTarget1'] = ZeroTexture
        /\ textures'[rttRenderTarget2'] = ZeroTexture
        /\ texture(uSculptTexture1', textures', imageProcessedData') = ZeroTexture
        /\ imageProcessedData' = imageProcessedData
        /\ baseHeights' = baseHeights
      ]_vars

C8_Witness ==
    /\ lastOp = "clear"
    /\ \E h \in RenderTargets : h < rttRenderTarget1 /\ textures[h] # ZeroTexture
    /\ textures[rttRenderTarget1] = ZeroTexture
    /\ textures[rttRenderTarget2] = ZeroTexture
    /\ texture(uSculptTexture1, textures, imageProcessedData) = ZeroTexture
    /\ uBaseTexture = imageDataTexture

\* C9: clear() leaves the pending flag, the recorded brush type and position,
\* the brush radius and amount and the base-texture bindings as they were,
\* and the SculptPass of an update() that directly follows a clear() applies
\* the last sculpt() call made before that clear().
C9_ClearKeepsPendingOp ==
    [][/\ ClearStep =>
            /\ isSculpting' = isSculpting
            /\ uSculptType' = uSculptType
            /\ sculptUvPos' = sculptUvPos
            /\ uSculptRadius' = uSculptRadius
            /\ uSculptAmount' = uSculptAmount
            /\ uBaseTexture' = uBaseTexture
            /\ uTexture1' = uTexture1
       /\ (UpdateStep /\ lastOp = "clear" /\ sculptCalls # <<>>) =>
            /\ sculptPass'.uIsSculpting
            /\ sculptPass'.uSculptType = sculptCalls[Len(sculptCalls)].type
            /\ sculptPass'.uSculptPos =
                  uvOf(sculptCalls[Len(sculptCalls)].position)
      ]_vars

C9_Witness ==
    /\ history = <<"sculpt", "clear", "update">>
    /\ sculptPass.uIsSculpting
    /\ sculptPass.uSculptType = appliedCalls[1].type
    /\ sculptPass.target = FirstTarget + 3

\* C10: sculpt() leaves an op pending; update() leaves none pending; the
\* SculptPass of an update() runs with the is-sculpting uniform true exactly
\* when a sculpt() call was made since the previous update(), so each pending
\* op is applied by the next update() only.
C10_PendingSculptStateMachine ==
    /\ lastOp = "sculpt" => isSculpting
    /\ lastOp = "update" =>
          /\ ~isSculpting
          /\ uIsSculpting = sculptPass.uIsSculpting
          /\ sculptPass.uIsSculpting <=> (appliedCalls # <<>>)
    /\ isSculpting <=> (sculptCalls # <<>>)

C10_Witness ==
    /\ Len(history) >= 3
    /\ history[Len(history) - 2] = "sculpt"
    /\ history[Len(history) - 1] = "update"
    /\ history[Len(history)] = "update"
    /\ appliedCalls = <<>>
    /\ ~sculptPass.uIsSculpting
    /\ ~isSculpting

\* C11: the SculptPass of an update() that follows sculpt() calls applies the
\* amount argument of the last of them.
C11_SculptRecordsAmount ==
    [][(UpdateStep /\ sculptCalls # <<>>) =>
          sculptPass'.uSculptAmount = sculptCalls[Len(sculptCalls)].amount]_vars

SetBrushSizeStep == history' = Append(history, "setBrushSize")
SetBrushAmountStep == history' = Append(history, "setBrushAmount")

\* what the setters must leave alone: both swap-chain textures and the
\* combined layer (handles and content), the base texture, the pending flag,
\* the recorded brush type and position, and the record of the draws made
swapChainAndBrushOp ==
    <<rttRenderTarget1, rttRenderTarget2, rttCombinedLayer, textures,
      imageProcessedData, uBaseTexture, uTexture1, uSculptTexture1, uTexture2,
      uTexture, isSculpting, uSculptType, sculptUvPos, uSculptPos, uIsSculpting,
      drawCalls>>

\* C12: setBrushSize() changes only the radius uniform and setBrushAmount()
\* only the amount uniform; the SculptPass of an update() draws with the
\* radius and amount uniforms as they are when it is called.
C12_SettersTouchOnlyTheirUniform ==
    [][/\ SetBrushSizeStep =>
            /\ UNCHANGED swapChainAndBrushOp
            /\ uSculptAmount' = uSculptAmount
       /\ SetBrushAmountStep =>
            /\ UNCHANGED swapChainAndBrushOp
            /\ uSculptRadius' = uSculptRadius
       /\ UpdateStep =>
            /\ sculptPass'.uSculptAmount = uSculptAmount
            /\ sculptPass'.uSculptRadius = uSculptRadius
      ]_vars

C12_Witness ==
    /\ Len(history) = 3
    /\ history = <<"sculpt", "update", "setBrushAmount">>
    /\ sculptPass.uIsSculpting
    /\ uSculptAmount # sculptPass.uSculptAmount
    /\ textures[sculptPass.target] =
          oneOpOn(ZeroTexture, sculptPass.uSculptType, sculptPass.uSculptPos,
                  sculptPass.uSculptAmount)

\* the smallest element of a buffer
MinOf(f) == CHOOSE m \in {f[i] : i \in DataIndex} : \A i \in DataIndex : m <= f[i]
loaded == uBaseTexture = imageDataTexture

\* C13 (under LoadSpec): loadFromImageData(data, 1, false) leaves a buffer
\* whose minimum is exactly 0, that is monotonic in the input bytes, and in
\* which each element is (data[i] - min(data)) / 255.
C13_BaseHeightNormalization ==
    (loaded /\ loadArgs.amount = 1 /\ ~loadArgs.midGreyIsLowest) =>
        /\ MinOf(imageProcessedData) = 0
        /\ \A i, j \in DataIndex :
              loadArgs.data[i] <= loadArgs.data[j] =>
                 imageProcessedData[i] <= imageProcessedData[j]
        /\ \A i \in DataIndex :
              255 * imageProcessedData[i] =
                 (loadArgs.data[i] - MinOf(loadArgs.data)) * HeightScale

C13_Witness ==
    /\ loaded
    /\ loadArgs.amount = 1
    /\ ~loadArgs.midGreyIsLowest
    /\ MinOf(loadArgs.data) = 50
    /\ \E i \in DataIndex : loadArgs.data[i] = 255
    /\ \E i \in DataIndex : imageProcessedData[i] = 0
    /\ \E i \in DataIndex : 255 * imageProcessedData[i] = (255 - 50) * HeightScale

\* C17 (under LoadSpec): for every buffer, amount and midGreyIsLowest, the
\* buffer left by loadFromImageData() has minimum exactly 0.
C17_FloorIsZero ==
    loaded => MinOf(imageProcessedData) = 0

constructorRan == thrown # "" \/ meshMaterial # "original"
optionsComplete ==
    /\ options.mesh /\ options.renderer /\ options.size /\ options.res
    /\ options.floatLinear /\ options.vertexTextures > 0

\* C14 (under ConstructSpec): the constructor throws exactly when an option
\* is missing or a capability is unavailable, and when it throws no render
\* target has been allocated and the mesh's material has not been replaced;
\* when it returns, the object is in the state Init describes.
C14_ConstructionFailsCleanly ==
    constructorRan =>
        /\ thrown # "" <=> ~optionsComplete
        /\ thrown # "" =>
              /\ allocated = 0
              /\ rttRenderTarget1 = null
              /\ rttRenderTarget2 = null
              /\ rttCombinedLayer = null
              /\ meshMaterial = "original"
        /\ thrown = "" => Init

C14_Witness ==
    /\ thrown = "Vertex textures not supported on your graphics card"
    /\ options.vertexTextures = 0
    /\ allocated = 0
    /\ meshMaterial = "original"

\* C15: every update(), with or without a pending op, issues exactly two
\* draws: first the SculptPass into the write target the swap chain has
\* before the swap, then, the two handles exchanged once, the CompositePass
\* into the combined layer with the post-swap rttRenderTarget1 as input; it
\* ends with the mesh's height uniform bound to the combined layer.
C15_UpdateStepsInOrder ==
    [][UpdateStep =>
        /\ Len(drawCalls') = 2
        /\ sculptPass'.pass = "SculptPass"
        /\ sculptPass'.target = rttRenderTarget1
        /\ sculptPass'.uSculptTexture1 = uSculptTexture1
        /\ sculptPass'.uIsSculpting = isSculpting
        /\ rttRenderTarget1' = rttRenderTarget2
        /\ rttRenderTarget2' = rttRenderTarget1
        /\ uSculptTexture1' = rttRenderTarget2'
        /\ compositePass'.pass = "CompositePass"
        /\ compositePass'.target = rttCombinedLayer
        /\ compositePass'.uTexture2 = rttRenderTarget1'
        /\ rttCombinedLayer' = rttCombinedLayer
        /\ uTexture' = rttCombinedLayer
      ]_vars

C15_Witness ==
    /\ lastOp = "update"
    /\ updates >= 2
    /\ appliedCalls = <<>>
    /\ Len(drawCalls) = 2
    /\ ~sculptPass.uIsSculpting
    /\ sculptPass.target = rttRenderTarget2
    /\ compositePass.target = rttCombinedLayer
    /\ compositePass.uTexture2 = rttRenderTarget1
    /\ uTexture = rttCombinedLayer

SculptStep == history' = Append(history, "sculpt")

\* C16: sculpt() leaves an op pending and changes nothing but the pending
\* flag, the recorded UV position and the brush type: the render-target
\* handles and contents, the base texture, every texture binding, the other
\* sculpt uniforms and the record of draws made are as before.
C16_SculptTouchesNoGpuResource ==
    [][SculptStep =>
        /\ isSculpting'
        /\ UNCHANGED <<rttRenderTarget1, rttRenderTarget2, rttCombinedLayer,
                       textures, allocated, rttQuadMeshMaterial, drawCalls,
                       imageProcessedData, imageDataTextureData,
                       uBaseTexture, uTexture1, uSculptTexture1, uTexture2,
                       uTexture, uIsSculpting, uSculptPos, uSculptAmount,
                       uSculptRadius>>
      ]_vars

C16_Witness ==
    /\ lastOp = "sculpt"
    /\ updates >= 1
    /\ isSculpting
    /\ \E h \in RenderTargets : textures[h] # ZeroTexture
    /\ sculptUvPos # uSculptPos
    /\ uSculptType # sculptPass.uSculptType
    /\ ~uIsSculpting

\* C18: the three render-target handles are pairwise distinct, and the
\* CompositePass of every update() wrote a target that is neither of the two
\* textures it sampled.
C18_CombinedLayerIsSeparate ==
    /\ rttRenderTarget1 # rttRenderTarget2
    /\ rttRenderTarget1 # rttCombinedLayer
    /\ rttRenderTarget2 # rttCombinedLayer
    /\ drawCalls # <<>> =>
          /\ compositePass.target # compositePass.uTexture1
          /\ compositePass.target # compositePass.uTexture2

C18_Witness ==
    /\ Len(history) >= 2
    /\ history[Len(history) - 1] = "clear"
    /\ lastOp = "update"
    /\ compositePass.uTexture1 = imageDataTexture
    /\ compositePass.uTexture2 = rttRenderTarget1
    /\ compositePass.target = rttCombinedLayer
    /\ rttCombinedLayer >= FirstTarget + 3

\* no clear() has been called since the latest update()
noClearSinceUpdate ==
    \A j \in DOMAIN history :
        history[j] = "clear" =>
            \E k \in DOMAIN history : k > j /\ history[k] = "update"

\* C19: the SculptPass of an update() that follows an earlier update() with no
\* clear() in between reads the texture that the earlier SculptPass wrote and
\* writes the other swap-chain texture; no step changes the content of a
\* texture other than the two targets an update() draws into.
C19_FeedbackChain ==
    [][/\ (UpdateStep /\ drawCalls # <<>> /\ noClearSinceUpdate) =>
            /\ sculptPass'.uSculptTexture1 = sculptPass.target
            /\ sculptPass'.target # sculptPass.target
            /\ {sculptPass.target, sculptPass'.target} =
                  {rttRenderTarget1, rttRenderTarget2}
       /\ \A h \in RenderTargets :
            textures'[h] # textures[h] =>
               /\ UpdateStep
               /\ h \in {sculptPass'.target, compositePass'.target}
      ]_vars

C19_Witness ==
    /\ history = <<"sculpt", "update", "sculpt", "update">>
    /\ sculptPass.uSculptTexture1 = FirstTarget
    /\ sculptPass.target = FirstTarget + 1
    /\ sculptPass.uIsSculpting
    /\ textures[FirstTarget] # ZeroTexture
    /\ textures[sculptPass.target] =
          oneOpOn(textures[FirstTarget], sculptPass.uSculptType,
                  sculptPass.uSculptPos, sculptPass.uSculptAmount)

\* C20: once loadFromImageData() has been called, every draw of update() has
\* all of its sampled textures bound: uBaseTexture and uSculptTexture1 in the
\* SculptPass, uTexture1 and uTexture2 in the CompositePass.
C20_DrawInputsBound ==
    (drawCalls # <<>> /\ sculptPass.uBaseTexture = imageDataTexture) =>
        /\ sculptPass.uSculptTexture1 # null
        /\ compositePass.uTexture1 # null
        /\ compositePass.uTexture2 # null

====
